---- MODULE Spec2Model ----
(***************************************************************************)
(* Installment-loan (EMI) engine of the car store: purchases (manual form  *)
(* and hosted checkout), plan creation, installment payments (manual and   *)
(* hosted checkout) and the admin status actions, as a state machine over  *)
(* the relational store.                                                   *)
(*                                                                         *)
(* Money is an integer number of cents (Decimal with two places).          *)
(* Interest rates are integers in hundredths of a percent (12.00% = 1200). *)
(* Dates are tuples <<year, month, day>>.                                  *)
(*                                                                         *)
(* Every request handler reads its model objects first (a snapshot held by *)
(* the worker) and writes later; the writes of one                         *)
(* `with transaction.atomic()` block are one step (they commit together or *)
(* roll back together), a write outside such a block is a step of its own. *)
(***************************************************************************)
EXTENDS Integers, Sequences, FiniteSets, TLC

\* ------------------------------------------------------------------ bounds
MaxStock == 1       \* largest initial stock of a colour variant / of the car
MaxPayments == 2    \* Payment rows a run may add to the store
MaxSessions == 1    \* hosted-checkout sessions a run may create

Procs == {1, 2}     \* concurrent request workers
Colors == {1, 2}    \* CarColor rows of the car
NoColor == 0        \* car_color = None
NoRate == -1        \* Car.emi_interest_rate = None
NoDate == <<0, 0, 0>>   \* next_due_date = None
NoPlan == 0         \* no EMIPlan id
NoSession == 0      \* Payment.stripe_session_id = '' (blank)

Prices == {1000}                     \* Car.price_value, in cents
RateConfigs == {<<1200, NoRate>>}    \* <<FinanceSetting rate, car override>>
StartDates == {<<2024, 1, 31>>}      \* the day the model starts on

\* the purchase forms a customer may post: payment_type, down_payment, emi_tenure
PurchaseForms ==
    { [ptype |-> "full", dp |-> 0,    tenure |-> 0],
      [ptype |-> "emi",  dp |-> 400,  tenure |-> 2],
      [ptype |-> "emi",  dp |-> 400,  tenure |-> 0] }    \* no term
\* the colour a form may choose; the variants are interchangeable, so only the
\* first one is bought while the others count in the aggregate stock
FormColors == {1, NoColor}

\* ------------------------------------------------------------ date helpers
IsLeap(y) == (y % 4 = 0 /\ y % 100 # 0) \/ y % 400 = 0

\* calendar.monthrange(year, month)[1]
DaysInMonth(y, m) ==
    IF m = 2 THEN (IF IsLeap(y) THEN 29 ELSE 28)
    ELSE IF m \in {4, 6, 9, 11} THEN 30 ELSE 31

Min(a, b) == IF a <= b THEN a ELSE b

\* month arithmetic that keeps the day of the source date whatever the target month
AddMonthsUnclamped(d, months) ==
    LET month0 == d[2] + months
        year0  == d[1] + (month0 \div 12)
        month1 == month0 % 12
        month  == IF month1 = 0 THEN 12 ELSE month1
        year   == IF month1 = 0 THEN year0 - 1 ELSE year0
    IN  <<year, month, d[3]>>

\* _add_months(sourcedate, months)
AddMonths(d, months) ==
    LET month0 == d[2] + months
        year0  == d[1] + (month0 \div 12)
        month1 == month0 % 12
        month  == IF month1 = 0 THEN 12 ELSE month1
        year   == IF month1 = 0 THEN year0 - 1 ELSE year0
        day    == Min(d[3], DaysInMonth(year, month))
    IN  <<year, month, day>>

\* date + timedelta(days = k), k >= 0
RECURSIVE PlusDays(_, _)
PlusDays(d, k) ==
    IF k = 0 THEN d
    ELSE IF d[3] < DaysInMonth(d[1], d[2]) THEN PlusDays(<<d[1], d[2], d[3] + 1>>, k - 1)
    ELSE IF d[2] < 12 THEN PlusDays(<<d[1], d[2] + 1, 1>>, k - 1)
    ELSE PlusDays(<<d[1] + 1, 1, 1>>, k - 1)

\* d1 >= d2 on dates
DateGte(d1, d2) ==
    \/ d1[1] > d2[1]
    \/ d1[1] = d2[1] /\ d1[2] > d2[2]
    \/ d1[1] = d2[1] /\ d1[2] = d2[2] /\ d1[3] >= d2[3]

\* ----------------------------------------------------------- money helpers
RECURSIVE Pow(_, _)
Pow(b, n) == IF n = 0 THEN 1 ELSE b * Pow(b, n - 1)

RECURSIVE Gcd(_, _)
Gcd(a, b) == IF b = 0 THEN a ELSE Gcd(b, a % b)

\* (num / den).quantize(Decimal('0.01'), rounding=ROUND_HALF_UP) for num >= 0, den > 0,
\* num/den being an amount in cents
QuantizeHalfUp(num, den) == (2 * num + den) \div (2 * den)

\* a schedule that reports no interest at all whenever the rate is zero
ComputeEmiZeroRateNoInterest(principal, rate, tenure_months) ==
    IF tenure_months <= 0 \/ principal <= 0
    THEN [ok |-> FALSE, emi |-> 0, total_amount |-> 0, total_interest |-> 0]
    ELSE
      LET g   == Gcd(rate, 120000)
          rn  == rate \div g
          rd  == 120000 \div g
          f   == Pow(rd + rn, tenure_months)
          one == Pow(rd, tenure_months)
          emi == IF rate > 0
                 THEN QuantizeHalfUp(principal * rn * f, rd * (f - one))
                 ELSE QuantizeHalfUp(principal, tenure_months)
          total_amount   == emi * tenure_months
          total_interest == IF rate > 0 THEN total_amount - principal ELSE 0
      IN  [ok |-> TRUE, emi |-> emi, total_amount |-> total_amount,
           total_interest |-> total_interest]

\* _compute_emi(principal, interest_rate, tenure_months): a record
\* [ok, emi, total_amount, total_interest]; ok = FALSE is the ValueError.
\* monthly_rate = rate / 1200 is the fraction rn / rd in lowest terms; the model draws
\* its rates from RateConfigs, whose monthly rates are exact decimals, so that the
\* 28-digit Decimal context never rounds before the final quantize.
ComputeEmi(principal, rate, tenure_months) ==
    IF tenure_months <= 0 \/ principal <= 0
    THEN [ok |-> FALSE, emi |-> 0, total_amount |-> 0, total_interest |-> 0]
    ELSE
      LET g   == Gcd(rate, 120000)
          rn  == rate \div g
          rd  == 120000 \div g
          f   == Pow(rd + rn, tenure_months)        \* (1 + r)^n * rd^n
          one == Pow(rd, tenure_months)             \* rd^n
          emi == IF rate > 0
                 THEN QuantizeHalfUp(principal * rn * f, rd * (f - one))
                 ELSE QuantizeHalfUp(principal, tenure_months)
          total_amount   == emi * tenure_months
          total_interest == total_amount - principal
      IN  [ok |-> TRUE, emi |-> emi, total_amount |-> total_amount,
           total_interest |-> total_interest]

\* ------------------------------------------------------------------- state
VARIABLES
    cfg,        \* configuration: [price, rate, carRate, workers] (car price, FinanceSetting
                \* rate, the car's override, the number of request workers)
    initial,    \* the store as it was when the model starts (never changes)
    db,         \* the committed store: colorStock, carStock, available, payments, sells, plans
                \* (and saved: the installment payments whose plan update has been saved)
    stripe,     \* hosted-checkout sessions, by session id: [kind, ...metadata]
    session,    \* the user's web session: <<>> or <<stripe_payment_data>>
    req,        \* per worker: the request it is serving and the objects it has read
    last,       \* the outcome of the request that finished last
    today       \* the current date

vars == <<cfg, initial, db, stripe, session, req, last, today>>

Idle == [pc |-> "idle"]
NoOutcome == [op |-> "none", res |-> "none", at |-> "none"]
Outcome(op, res, at) == [op |-> op, res |-> res, at |-> at]

\* sum of f[i].amount over the indices i of the sequence f that are in S
RECURSIVE SumAmounts(_, _)
SumAmounts(f, S) ==
    IF S = {} THEN 0
    ELSE LET i == CHOOSE j \in S : TRUE IN f[i].amount + SumAmounts(f, S \ {i})

\* Car.total_stock: the sum of the stock of the colour variants
RECURSIVE SumStock(_, _)
SumStock(f, S) ==
    IF S = {} THEN 0
    ELSE LET c == CHOOSE x \in S : TRUE IN f[c] + SumStock(f, S \ {c})

total_stock(d) == SumStock(d.colorStock, Colors)

\* EMIPlan.save(): a plan saved without a due date gets start_date + 30 days
PlanSave(plan, now) ==
    IF plan.next_due_date = NoDate
    THEN [plan EXCEPT !.next_due_date =
            PlusDays(IF plan.start_date # NoDate THEN plan.start_date ELSE now, 30)]
    ELSE plan

\* --------------------------------------------- writes of one request handler
\* A handler's writes are a sequence of named steps. Step k may raise (a storage
\* failure, or an exception of the code itself); the steps before it that are inside
\* the same `with transaction.atomic()` block are rolled back, the steps that ran
\* outside the block stay.

\* a purchase whose Payment row is inserted before the atomic block is entered
MakePaymentAtomicAfterPayment == {"sell", "color", "car", "plan", "notify"}

\* make_payment: the block of views.py 636-733
MakePaymentSteps == <<"customer", "payment", "sell", "color", "car", "plan", "notify">>
MakePaymentAtomic == {"customer", "payment", "sell", "color", "car", "plan", "notify"}

\* stripe_success: the block of views.py 1657-1734, then the session clean-up
StripeSuccessSteps == <<"payment", "sell", "color", "car", "plan", "notify">>
StripeSuccessAtomic == {"payment", "sell", "color", "car", "plan", "notify"}

\* Payment.objects.create(...) of a purchase (make_payment 653-661, stripe_success 1659-1668)
CreatePurchasePayment(d, c, now) ==
    [d EXCEPT !.payments = Append(@,
        [amount |-> c.amount, color |-> c.color, session |-> c.sid, date |-> now,
         plan |-> NoPlan, kind |-> "purchase", seen |-> "new"])]

\* Sell.objects.create(...) (make_payment 664-669, stripe_success 1671-1676);
\* stockSeen records the stock the handler had read for the chosen variant (or car)
CreateSell(d, c) ==
    [d EXCEPT !.sells = Append(@,
        [color |-> c.color,
         stockSeen |-> IF c.color # NoColor THEN c.snapColor ELSE c.snapCar])]

\* car_color.stock -= 1; car_color.save() on the object read earlier
\* (make_payment 672-675, stripe_success 1679-1681)
SaveColorStock(d, c) ==
    IF c.color # NoColor /\ c.snapColor > 0
    THEN [d EXCEPT !.colorStock[c.color] = c.snapColor - 1]
    ELSE d

\* car.stock -= 1; is_available = False at zero; car.save() on the object read earlier
\* (make_payment 678-685, stripe_success 1683-1687)
SaveCar(d, c) ==
    LET stock == IF c.snapCar > 0 THEN c.snapCar - 1 ELSE c.snapCar
    IN  [d EXCEPT !.carStock = stock,
                  !.available = IF stock <= 0 THEN FALSE ELSE c.snapAvail]

\* a plan row created without its first due date, which EMIPlan.save() then fills in
NewPlanWithoutDueDate(d, c, sched, now) ==
    PlanSave([payment |-> Len(d.payments),
              color |-> c.color,
              down_payment |-> c.dp,
              loan_amount |-> cfg.price - c.dp,
              interest_rate |-> c.rate,
              tenure_months |-> c.tenure,
              monthly_emi |-> sched.emi,
              total_interest |-> sched.total_interest,
              total_payable |-> c.dp + sched.total_amount,
              start_date |-> now,
              next_due_date |-> NoDate,
              plan_status |-> "active"], now)

\* the new plan row of EMIPlan.objects.create(...) (make_payment 690-707, stripe_success 1698-1715)
NewPlan(d, c, sched, now) ==
    PlanSave([payment |-> Len(d.payments),
              color |-> c.color,
              down_payment |-> c.dp,
              loan_amount |-> cfg.price - c.dp,
              interest_rate |-> c.rate,
              tenure_months |-> c.tenure,
              monthly_emi |-> sched.emi,
              total_interest |-> sched.total_interest,
              total_payable |-> c.dp + sched.total_amount,
              start_date |-> now,
              next_due_date |-> AddMonths(now, 1),
              plan_status |-> "active"], now)

\* make_payment 688-707: the plan is created for payment_type 'emi'
MakePaymentPlan(d, c, now) ==
    IF c.ptype = "emi"
    THEN [d EXCEPT !.plans = Append(@,
            NewPlan(d, c, ComputeEmi(cfg.price - c.dp, c.rate, c.tenure), now))]
    ELSE d

\* stripe_success 1690-1715: the plan is created for payment_type 'emi' when loan_amount > 0
StripeSuccessPlan(d, c, now) ==
    IF c.ptype = "emi" /\ cfg.price - c.dp > 0
    THEN [d EXCEPT !.plans = Append(@,
            NewPlan(d, c, ComputeEmi(cfg.price - c.dp, c.rate, c.tenure), now))]
    ELSE d

\* the step at which the handler's own code raises, "none" when it does not:
\* stripe_success calls _compute_emi inside the block (1697), which raises ValueError
StripeSuccessRaises(c) ==
    IF c.ptype = "emi" /\ cfg.price - c.dp > 0
       /\ ~ComputeEmi(cfg.price - c.dp, c.rate, c.tenure).ok
    THEN "plan" ELSE "none"

\* the completed payments counted for a plan: same customer and car, dated on or after
\* the plan's start (make_emi_payment 889-894, stripe_emi_success 1902-1907); the
\* model has one customer and one car
PlanPaymentIds(d, plan) ==
    {i \in 1..Len(d.payments) : DateGte(d.payments[i].date, plan.start_date)}

\* a filter that takes the payments dated after the plan's start only
TotalInstallmentsPaidAfterStart(d, plan) ==
    SumAmounts(d.payments,
               {i \in 1..Len(d.payments) : DateGte(d.payments[i].date, plan.start_date)
                                              /\ d.payments[i].date # plan.start_date}
                   \ {plan.payment})

\* ... .exclude(id=plan.payment_id).aggregate(Sum('amount'))
TotalInstallmentsPaid(d, plan) ==
    SumAmounts(d.payments, PlanPaymentIds(d, plan) \ {plan.payment})

\* create_emi_stripe_checkout 1799-1811: remaining = total_payable - total paid, not below 0
RemainingBalance(d, plan) ==
    LET remaining == plan.total_payable - SumAmounts(d.payments, PlanPaymentIds(d, plan))
    IN  IF remaining < 0 THEN 0 ELSE remaining

\* a handler that counts a started installment as a whole one
MakeEmiPaymentPlanCountsRemainder(d, plan, amount, etype) ==
    IF etype = "full"
    THEN [plan EXCEPT !.plan_status = "completed", !.next_due_date = NoDate]
    ELSE LET emi_count == (amount + plan.monthly_emi - 1) \div plan.monthly_emi
             start_date_for_advance ==
                 IF plan.next_due_date # NoDate THEN plan.next_due_date
                 ELSE AddMonths(plan.start_date, 1)
             new_due_date == AddMonths(start_date_for_advance, emi_count)
         IN  IF SumAmounts(d.payments,
                   {i \in 1..Len(d.payments) : DateGte(d.payments[i].date, plan.start_date)}
                       \ {plan.payment}) >= plan.loan_amount + plan.total_interest
             THEN [plan EXCEPT !.plan_status = "completed", !.next_due_date = NoDate]
             ELSE [plan EXCEPT !.next_due_date = new_due_date]

\* make_emi_payment 864-901: the plan object after the payment, before it is saved;
\* d is the store inside the transaction (the new Payment is in it)
MakeEmiPaymentPlan(d, plan, amount, etype) ==
    IF etype = "full"
    THEN [plan EXCEPT !.plan_status = "completed", !.next_due_date = NoDate]
    ELSE LET emi_count == amount \div plan.monthly_emi
             start_date_for_advance ==
                 IF plan.next_due_date # NoDate THEN plan.next_due_date
                 ELSE AddMonths(plan.start_date, 1)
             new_due_date == AddMonths(start_date_for_advance, emi_count)
         IN  IF TotalInstallmentsPaid(d, plan) >= plan.loan_amount + plan.total_interest
             THEN [plan EXCEPT !.plan_status = "completed", !.next_due_date = NoDate]
             ELSE [plan EXCEPT !.next_due_date = new_due_date]

\* stripe_emi_success 1889-1912: the same computation in the hosted-checkout callback
StripeEmiSuccessPlan(d, plan, amount, etype) ==
    IF etype = "full"
    THEN [plan EXCEPT !.plan_status = "completed", !.next_due_date = NoDate]
    ELSE LET emi_count == amount \div plan.monthly_emi
             start_date_for_advance ==
                 IF plan.next_due_date # NoDate THEN plan.next_due_date
                 ELSE AddMonths(plan.start_date, 1)
             new_due_date == AddMonths(start_date_for_advance, emi_count)
         IN  IF TotalInstallmentsPaid(d, plan) >= plan.loan_amount + plan.total_interest
             THEN [plan EXCEPT !.plan_status = "completed", !.next_due_date = NoDate]
             ELSE [plan EXCEPT !.next_due_date = new_due_date]

\* Payment.objects.create(...) of an installment (make_emi_payment 851-859,
\* stripe_emi_success 1877-1886); plan, kind and seen are not columns: they record the
\* plan the handler paid for, the payment type of the request and the status of the
\* plan as the handler had read it
CreateEmiPayment(d, c, now) ==
    [d EXCEPT !.payments = Append(@,
        [amount |-> c.amount, color |-> NoColor, session |-> c.sid, date |-> now,
         plan |-> c.plan, kind |-> c.etype, seen |-> c.snapPlan.plan_status])]

\* plan.save() of the plan object the handler holds (make_emi_payment 917,
\* stripe_emi_success 1914): every column is written; pid is the Payment it follows
SavePlan(d, id, plan, pid, now) ==
    [d EXCEPT !.plans[id] = PlanSave(plan, now), !.saved = @ \cup {pid}]

\* stripe_emi_success: the block of views.py 1876-1927
StripeEmiSuccessSteps == <<"payment", "plan", "notify">>
StripeEmiSuccessAtomic == {"payment", "plan", "notify"}

\* make_emi_payment: the block of views.py 849-914 holds the Payment only; plan.save()
\* (917) comes after it
MakeEmiPaymentSteps == <<"payment", "plan">>
MakeEmiPaymentAtomic == {"payment"}

\* int(amount / plan.monthly_emi) raises for a plan whose installment is 0.00
EmiRaises(c) == IF c.etype # "full" /\ c.snapPlan.monthly_emi = 0 THEN "plan" ELSE "none"

ApplyStep(d, op, step, c, now) ==
    CASE op = "make_payment" /\ step = "payment" -> CreatePurchasePayment(d, c, now)
      [] op = "make_payment" /\ step = "sell"    -> CreateSell(d, c)
      [] op = "make_payment" /\ step = "color"   -> SaveColorStock(d, c)
      [] op = "make_payment" /\ step = "car"     -> SaveCar(d, c)
      [] op = "make_payment" /\ step = "plan"    -> MakePaymentPlan(d, c, now)
      [] op = "stripe_success" /\ step = "payment" -> CreatePurchasePayment(d, c, now)
      [] op = "stripe_success" /\ step = "sell"    -> CreateSell(d, c)
      [] op = "stripe_success" /\ step = "color"   -> SaveColorStock(d, c)
      [] op = "stripe_success" /\ step = "car"     -> SaveCar(d, c)
      [] op = "stripe_success" /\ step = "plan"    -> StripeSuccessPlan(d, c, now)
      [] op = "make_emi_payment" /\ step = "payment"   -> CreateEmiPayment(d, c, now)
      [] op = "make_emi_payment" /\ step = "plan"      -> SavePlan(d, c.plan, c.newPlan, c.pid, now)
      [] op = "stripe_emi_success" /\ step = "payment" -> CreateEmiPayment(d, c, now)
      [] op = "stripe_emi_success" /\ step = "plan"    ->
            SavePlan(d, c.plan, StripeEmiSuccessPlan(d, c.snapPlan, c.amount, c.etype),
                     Len(d.payments), now)
      [] OTHER -> d

\* The store after the handler ran steps 1 .. upto-1 of `steps` and step `failAt`
\* raised (failAt = 0: nothing raised, and upto = Len(steps) + 1): a step inside the
\* atomic block is kept unless the failing step is in the block too.
RECURSIVE RunSteps(_, _, _, _, _, _, _, _)
RunSteps(d, op, steps, atomic, i, failAt, c, now) ==
    IF i > Len(steps) \/ (failAt # 0 /\ i >= failAt) THEN d
    ELSE LET rolledBack == failAt # 0 /\ steps[i] \in atomic /\ steps[failAt] \in atomic
             d1 == IF rolledBack THEN d ELSE ApplyStep(d, op, steps[i], c, now)
         IN  RunSteps(d1, op, steps, atomic, i + 1, failAt, c, now)

Persisted(d, op, steps, atomic, failAt, c, now) ==
    RunSteps(d, op, steps, atomic, 1, failAt, c, now)

\* index of a step name in a sequence of steps (0 when absent)
IndexOf(steps, name) ==
    IF \E i \in 1..Len(steps) : steps[i] = name
    THEN CHOOSE i \in 1..Len(steps) : steps[i] = name ELSE 0

\* the failure points of a run: any step may fail in the store; a step at which the
\* code itself raises always fails unless an earlier one did
FailPoints(steps, raises) ==
    IF raises = "none" THEN 0..Len(steps) ELSE 1..IndexOf(steps, raises)

\* where a run failed, as the outcome reports it: before its first write or after some
FailedAt(failAt) == IF failAt = 0 THEN "none" ELSE IF failAt = 1 THEN "start" ELSE "midway"

\* the ids a plan may have: a plan comes with a payment
PlanIds == 1..(MaxPayments + 1)

\* requests in flight (each will insert a Payment row)
InFlight == Cardinality({p \in Procs : req[p].pc # "idle"})
MayPay == Len(db.payments) - Len(initial.payments) + InFlight < MaxPayments

\* the workers are interchangeable: a request goes to the first idle one
Free(p) ==
    /\ p <= cfg.workers
    /\ req[p].pc = "idle"
    /\ \A q \in Procs : q < p => req[q].pc # "idle"

Finish(p, op, res, at) ==
    /\ req' = [req EXCEPT ![p] = Idle]
    /\ last' = Outcome(op, res, at)

\* default_interest_rate = car_interest_rate or global_interest_rate (make_payment 579-583):
\* a car rate of None or 0 falls back to the FinanceSetting rate
DefaultInterestRate == IF cfg.carRate # NoRate /\ cfg.carRate # 0 THEN cfg.carRate ELSE cfg.rate

\* minimum_down_payment = (price * 0.1).quantize(0.01, ROUND_HALF_UP) (make_payment 578)
MinimumDownPayment == QuantizeHalfUp(cfg.price, 10)

\* ------------------------------------------------------------------- Init
\* a store with a car and its colour variants, nothing sold yet
EmptyStore(colorStock, carStock) ==
    [colorStock |-> colorStock, carStock |-> carStock, available |-> TRUE,
     payments |-> <<>>, sells |-> <<>>, plans |-> <<>>, saved |-> {}]

InitCommon(workers) ==
    /\ \E pr \in Prices, rc \in RateConfigs :
          cfg = [price |-> pr, rate |-> rc[1], carRate |-> rc[2], workers |-> workers]
    /\ stripe = <<>>
    /\ session = <<>>
    /\ req = [p \in Procs |-> Idle]
    /\ last = NoOutcome
    /\ today \in StartDates

\* the store before any sale: the stock of each colour variant (CarColor.stock) and of
\* the car (Car.stock, 0 unless the row was loaded with another value)
InitStore(workers) ==
    /\ InitCommon(workers)
    /\ \E cs \in [Colors -> 0..MaxStock], s \in 0..MaxStock : db = EmptyStore(cs, s)
    /\ initial = db

\* --------------------------------------------------- make_payment (manual)
\* views.py 562-634: read the car and the colour, validate, up to the atomic block.
\* A non-staff user: the interest rate is the default one.
\* what make_payment holds when it enters its atomic block: "out_of_stock", "invalid"
\* (the early returns of 596-601 and 619-632), or the validated form and the rows read
MakePaymentRequest(d, color, form) ==
    LET snapColor == IF color # NoColor THEN d.colorStock[color] ELSE 0
        loan_amount == cfg.price - form.dp
        sched == ComputeEmi(loan_amount, DefaultInterestRate, form.tenure)
    IN  IF (color # NoColor /\ snapColor <= 0) \/ (color = NoColor /\ d.carStock <= 0)
        THEN [pc |-> "out_of_stock"]
        ELSE IF form.ptype = "emi"
                /\ (form.dp < MinimumDownPayment \/ form.dp >= cfg.price \/ ~sched.ok)
        THEN [pc |-> "invalid"]
        ELSE [pc |-> "make_payment", color |-> color, ptype |-> form.ptype,
              amount |-> IF form.ptype = "emi" THEN form.dp ELSE cfg.price,
              dp |-> form.dp, tenure |-> form.tenure,
              rate |-> DefaultInterestRate, sid |-> NoSession,
              snapColor |-> snapColor, snapCar |-> d.carStock, snapAvail |-> d.available]

MakePaymentBegin(p) ==
    /\ Free(p)
    /\ MayPay
    /\ \E color \in FormColors, form \in PurchaseForms :
        LET r == MakePaymentRequest(db, color, form)
        IN  IF r.pc = "make_payment"
            THEN req' = [req EXCEPT ![p] = r] /\ UNCHANGED last
            ELSE Finish(p, "make_payment", r.pc, "none")
    /\ UNCHANGED <<cfg, initial, db, stripe, session, today>>

\* views.py 636-733: the atomic block
MakePaymentCommit(p) ==
    /\ req[p].pc = "make_payment"
    /\ \E failAt \in FailPoints(MakePaymentSteps, "none") :
        /\ db' = Persisted(db, "make_payment", MakePaymentSteps, MakePaymentAtomic,
                           failAt, req[p], today)
        /\ Finish(p, "make_payment", IF failAt = 0 THEN "ok" ELSE "aborted",
                  FailedAt(failAt))
    /\ UNCHANGED <<cfg, initial, stripe, session, today>>

\* ------------------------------------------- purchase by hosted checkout
\* create_stripe_checkout (views.py 1515-1611): stores stripe_payment_data in the web
\* session, then creates the checkout session (which may fail); `sessions` is the number
\* of checkout sessions a run may create
CreateStripeCheckoutUpTo(p, sessions) ==
    /\ Free(p)
    /\ Len(stripe) < sessions
    /\ \E color \in FormColors, form \in PurchaseForms, created \in BOOLEAN :
        LET amount == IF form.ptype = "emi" THEN form.dp ELSE cfg.price
        IN  /\ session' = << [color |-> color, amount |-> amount, ptype |-> form.ptype,
                              dp |-> form.dp, tenure |-> form.tenure] >>
            /\ stripe' = IF created
                         THEN Append(stripe, [kind |-> "purchase", color |-> color,
                                              ptype |-> form.ptype, plan |-> NoPlan,
                                              amount |-> amount])
                         ELSE stripe
            /\ last' = Outcome("create_stripe_checkout",
                               IF created THEN "ok" ELSE "stripe_error", "none")
    /\ UNCHANGED <<cfg, initial, db, req, today>>

CreateStripeCheckout(p) == CreateStripeCheckoutUpTo(p, MaxSessions)

\* a callback that does not look for the Payment of its session
SessionNeverRecorded(d, sid) == FALSE

\* Payment.objects.filter(stripe_session_id=session_id) is not empty
\* (stripe_success 1651-1652, stripe_emi_success 1872)
SessionRecorded(d, sid) == \E i \in 1..Len(d.payments) : d.payments[i].session = sid

\* stripe_success, views.py 1615-1655: retrieve the checkout session (paid or not is
\* the payment service's answer), read the web session's payment data, the car and the
\* colour, and look for an existing Payment
StripeSuccessBegin(p, sid) ==
    /\ Free(p)
    /\ sid \in 1..Len(stripe)
    /\ stripe[sid].kind = "purchase"
    /\ MayPay
    /\ \E paid \in BOOLEAN :
       LET has == session # <<>>
           pd == IF has THEN session[1] ELSE [color |-> NoColor, amount |-> cfg.price,
                                             ptype |-> "full", dp |-> 0, tenure |-> 36]
           color == IF pd.color # NoColor THEN pd.color ELSE stripe[sid].color
       IN  IF ~paid
           THEN Finish(p, "stripe_success", "not_paid", "none")
           ELSE IF SessionRecorded(db, sid)
           THEN Finish(p, "stripe_success", "duplicate", "none")
           ELSE /\ req' = [req EXCEPT ![p] =
                        [pc |-> "stripe_success", color |-> color, ptype |-> pd.ptype,
                         amount |-> pd.amount, dp |-> pd.dp, tenure |-> pd.tenure,
                         rate |-> cfg.rate, sid |-> sid,
                         snapColor |-> IF color # NoColor THEN db.colorStock[color] ELSE 0,
                         snapCar |-> db.carStock, snapAvail |-> db.available]]
                /\ UNCHANGED last
    /\ UNCHANGED <<cfg, initial, db, stripe, session, today>>

\* stripe_success, views.py 1657-1748: the atomic block, then the web session is cleared;
\* an exception rolls the block back and is reported (1743-1748)
StripeSuccessCommit(p) ==
    /\ req[p].pc = "stripe_success"
    /\ \E failAt \in FailPoints(StripeSuccessSteps, StripeSuccessRaises(req[p])) :
        /\ db' = Persisted(db, "stripe_success", StripeSuccessSteps, StripeSuccessAtomic,
                           failAt, req[p], today)
        /\ session' = IF failAt = 0 THEN <<>> ELSE session
        /\ Finish(p, "stripe_success", IF failAt = 0 THEN "ok" ELSE "aborted",
                  FailedAt(failAt))
    /\ UNCHANGED <<cfg, initial, stripe, today>>

\* the purchase handlers, both channels
NextPurchase ==
    \/ \E p \in Procs : MakePaymentBegin(p)
    \/ \E p \in Procs : MakePaymentCommit(p)
    \/ \E p \in Procs : CreateStripeCheckout(p)
    \/ \E p \in Procs, sid \in 1..MaxSessions : StripeSuccessBegin(p, sid)
    \/ \E p \in Procs : StripeSuccessCommit(p)

\* purchases by concurrent workers, from a store with nothing sold
SpecPurchase == InitStore(2) /\ [][NextPurchase]_vars

\* purchases served one at a time
SpecPurchaseSeq == InitStore(1) /\ [][NextPurchase]_vars

\* ------------------------------------------------- installment payments
\* the installment forms: payment type and amount (make_emi_payment takes the amount
\* from the request; the hosted checkout computes it)
EmiForms ==
    { [etype |-> "single", pay |-> "less"], [etype |-> "single", pay |-> "one"],
      [etype |-> "single", pay |-> "two"],
      [etype |-> "full", pay |-> "remaining"], [etype |-> "full", pay |-> "nothing"] }

FormAmount(d, plan, form) ==
    CASE form.pay = "less"      -> plan.monthly_emi - 1
      [] form.pay = "one"       -> plan.monthly_emi
      [] form.pay = "two"       -> 2 * plan.monthly_emi
      [] form.pay = "remaining" -> RemainingBalance(d, plan)
      [] form.pay = "amount"    -> form.amount
      [] OTHER                  -> 0

\* a handler that takes any amount
NeverInsufficient(amount, plan, etype) == FALSE

\* make_emi_payment 844: amount_decimal < plan.monthly_emi and payment_type != 'full'
InsufficientAmount(amount, plan, etype) == amount < plan.monthly_emi /\ etype # "full"

\* make_emi_payment, views.py 821-846: read the plan, check its status and the amount
\* for a request whose form is one of `forms`
MakeEmiPaymentBeginWith(p, id, forms) ==
    /\ Free(p)
    /\ MayPay
    /\ id \in 1..Len(db.plans)
    /\ \E form \in forms :
        LET plan == db.plans[id]
            amount == FormAmount(db, plan, form)
        IN  IF plan.plan_status # "active"
            THEN Finish(p, "make_emi_payment", "not_active", "none")
            ELSE IF InsufficientAmount(amount, plan, form.etype)
            THEN Finish(p, "make_emi_payment", "insufficient", "none")
            ELSE /\ req' = [req EXCEPT ![p] =
                        [pc |-> "make_emi_payment", plan |-> id, snapPlan |-> plan,
                         newPlan |-> plan, amount |-> amount, etype |-> form.etype,
                         sid |-> NoSession, pid |-> 0]]
                 /\ UNCHANGED last
    /\ UNCHANGED <<cfg, initial, db, stripe, session, today>>

MakeEmiPaymentBegin(p, id) == MakeEmiPaymentBeginWith(p, id, EmiForms)

\* make_emi_payment, views.py 849-914: the atomic block inserts the Payment and works
\* out the new status and due date on the plan object
MakeEmiPaymentTx(p) ==
    /\ req[p].pc = "make_emi_payment"
    /\ \E failAt \in {0, 1} :
        LET c == req[p]
            d1 == CreateEmiPayment(db, c, today)
        IN  /\ failAt = 0 => EmiRaises(c) = "none"
            /\ IF failAt = 0
               THEN /\ db' = d1
                    /\ req' = [req EXCEPT ![p] =
                          [c EXCEPT !.pc = "make_emi_save", !.pid = Len(d1.payments),
                                    !.newPlan = MakeEmiPaymentPlan(d1, c.snapPlan, c.amount, c.etype)]]
                    /\ UNCHANGED last
               ELSE /\ db' = db
                    /\ Finish(p, "make_emi_payment", "aborted", "start")
    /\ UNCHANGED <<cfg, initial, stripe, session, today>>

\* make_emi_payment, views.py 917: plan.save(), after the block has committed
MakeEmiPaymentSave(p) ==
    /\ req[p].pc = "make_emi_save"
    /\ \E failAt \in {0, 2} :
        /\ db' = IF failAt = 0
                 THEN ApplyStep(db, "make_emi_payment", "plan", req[p], today)
                 ELSE db
        /\ Finish(p, "make_emi_payment", IF failAt = 0 THEN "ok" ELSE "aborted",
                  FailedAt(failAt))
    /\ UNCHANGED <<cfg, initial, stripe, session, today>>

\* create_emi_stripe_checkout, views.py 1771-1849
CreateEmiStripeCheckout(p, id) ==
    /\ Free(p)
    /\ Len(stripe) < MaxSessions
    /\ id \in 1..Len(db.plans)
    /\ \E ptype \in {"single", "multiple", "full"}, created \in BOOLEAN :
        LET plan == db.plans[id]
            amount == IF ptype = "full" THEN RemainingBalance(db, plan) ELSE plan.monthly_emi
            res == IF plan.plan_status # "active" THEN "not_active"
                   ELSE IF ptype = "multiple" THEN "unhandled_error"
                   ELSE IF created THEN "ok" ELSE "stripe_error"
        IN  /\ stripe' = IF res = "ok"
                         THEN Append(stripe, [kind |-> "emi", color |-> NoColor,
                                              ptype |-> ptype, plan |-> id, amount |-> amount])
                         ELSE stripe
            /\ last' = Outcome("create_emi_stripe_checkout", res, "none")
    /\ UNCHANGED <<cfg, initial, db, session, req, today>>

\* stripe_emi_success, views.py 1852-1874: retrieve the checkout session, read the plan,
\* look for an existing Payment
StripeEmiSuccessBegin(p, sid) ==
    /\ Free(p)
    /\ sid \in 1..Len(stripe)
    /\ stripe[sid].kind = "emi"
    /\ MayPay
    /\ \E paid \in BOOLEAN :
        IF ~paid
        THEN Finish(p, "stripe_emi_success", "not_paid", "none")
        ELSE IF SessionRecorded(db, sid)
        THEN Finish(p, "stripe_emi_success", "duplicate", "none")
        ELSE /\ req' = [req EXCEPT ![p] =
                    [pc |-> "stripe_emi_success", plan |-> stripe[sid].plan,
                     snapPlan |-> db.plans[stripe[sid].plan],
                     newPlan |-> db.plans[stripe[sid].plan],
                     amount |-> stripe[sid].amount, etype |-> stripe[sid].ptype,
                     sid |-> sid, pid |-> 0]]
             /\ UNCHANGED last
    /\ UNCHANGED <<cfg, initial, db, stripe, session, today>>

\* stripe_emi_success, views.py 1876-1931: the atomic block; an exception rolls it back
\* and is reported
StripeEmiSuccessCommit(p) ==
    /\ req[p].pc = "stripe_emi_success"
    /\ \E failAt \in FailPoints(StripeEmiSuccessSteps, EmiRaises(req[p])) :
        /\ db' = Persisted(db, "stripe_emi_success", StripeEmiSuccessSteps,
                           StripeEmiSuccessAtomic, failAt, req[p], today)
        /\ Finish(p, "stripe_emi_success", IF failAt = 0 THEN "ok" ELSE "aborted",
                  FailedAt(failAt))
    /\ UNCHANGED <<cfg, initial, stripe, session, today>>

\* EMIPlanAdmin.mark_completed / mark_defaulted (admin.py 615-623):
\* queryset.update(plan_status=...) writes the status column alone
AdminMark(id, status) ==
    /\ id \in 1..Len(db.plans)
    /\ db.plans[id].plan_status # status
    /\ db' = [db EXCEPT !.plans[id].plan_status = status]
    /\ last' = Outcome("admin_mark", status, "none")
    /\ UNCHANGED <<cfg, initial, stripe, session, req, today>>

\* the installment handlers, both channels, and the admin actions
NextEmi ==
    \/ \E p \in Procs, id \in PlanIds : MakeEmiPaymentBegin(p, id)
    \/ \E p \in Procs : MakeEmiPaymentTx(p)
    \/ \E p \in Procs : MakeEmiPaymentSave(p)
    \/ \E p \in Procs, id \in PlanIds : CreateEmiStripeCheckout(p, id)
    \/ \E p \in Procs, sid \in 1..MaxSessions : StripeEmiSuccessBegin(p, sid)
    \/ \E p \in Procs : StripeEmiSuccessCommit(p)
    \/ \E id \in PlanIds, status \in {"completed", "defaulted"} : AdminMark(id, status)

\* the financed purchases behind the plans that installments are paid on: a term that
\* two installments complete and a term that they do not
PlanForms ==
    { [ptype |-> "emi", dp |-> 400, tenure |-> 2],
      [ptype |-> "emi", dp |-> 400, tenure |-> 3] }

\* a store in which one financed purchase has been made (by make_payment)
InitPlan(workers) ==
    /\ InitCommon(workers)
    /\ \E form \in PlanForms :
        LET d0 == EmptyStore([c \in Colors |-> 1], 1)
            r  == MakePaymentRequest(d0, 1, form)
        IN  /\ r.pc = "make_payment"
            /\ db = Persisted(d0, "make_payment", MakePaymentSteps, MakePaymentAtomic,
                              0, r, today)
    /\ initial = db

\* installment payments by concurrent workers on an existing plan
SpecEmi == InitPlan(2) /\ [][NextEmi]_vars

\* installment payments served one at a time
SpecEmiSeq == InitPlan(1) /\ [][NextEmi]_vars

\* the installment handlers alone, both channels
NextEmiPay ==
    \/ \E p \in Procs, id \in PlanIds : MakeEmiPaymentBegin(p, id)
    \/ \E p \in Procs : MakeEmiPaymentTx(p)
    \/ \E p \in Procs : MakeEmiPaymentSave(p)
    \/ \E p \in Procs, id \in PlanIds : CreateEmiStripeCheckout(p, id)
    \/ \E p \in Procs, sid \in 1..MaxSessions : StripeEmiSuccessBegin(p, sid)
    \/ \E p \in Procs : StripeEmiSuccessCommit(p)

\* installment payments by concurrent workers, no admin action
SpecEmiRace == InitPlan(2) /\ [][NextEmiPay]_vars

\* installment payments served one at a time, no admin action
SpecEmiPaySeq == InitPlan(1) /\ [][NextEmiPay]_vars

\* every handler, served one at a time, from a store with nothing sold
Next == NextPurchase \/ NextEmi
Spec == InitStore(1) /\ [][Next]_vars

\* ------------------------------------------------------------------ claims
\* rows of the store, by what they record
SessionPayments(d, sid) == {i \in 1..Len(d.payments) : d.payments[i].session = sid}
InstallmentPayments(d) == {i \in 1..Len(d.payments) : d.payments[i].kind # "purchase"}
ColorSells(d, c) == {i \in 1..Len(d.sells) : d.sells[i].color = c}
Quiet == \A p \in Procs : req[p].pc = "idle"

\* worker p ends a full-settlement request with success in this step
FullSettled(p) ==
    /\ req[p].pc \in {"make_emi_save", "stripe_emi_success"}
    /\ req[p].etype = "full"
    /\ req'[p].pc = "idle"
    /\ last'.res = "ok"

\* C1: after a successful full-settlement payment, in either channel, the stored plan
\* has status completed and no next due date.
C1_FullSettlementClearsDueDate ==
    [][\A p \in Procs : FullSettled(p) =>
          /\ db'.plans[req[p].plan].plan_status = "completed"
          /\ db'.plans[req[p].plan].next_due_date = NoDate]_vars

\* C2: with the hosted-checkout installment callback run any number of times, one after
\* the other, for one session id, one Payment is stored for the session and the plan is
\* updated for it once.
C2_CallbackIdempotent ==
    \A sid \in 1..Len(stripe) :
        /\ Cardinality(SessionPayments(db, sid)) <= 1
        /\ Cardinality(SessionPayments(db, sid) \cap db.saved) <= 1

\* C2's case: the callback has answered a replay with the existing Payment, which is
\* the only one of its session and has updated the plan
C2_Witness ==
    /\ last = Outcome("stripe_emi_success", "duplicate", "none")
    /\ \E sid \in 1..Len(stripe) :
          /\ Cardinality(SessionPayments(db, sid)) = 1
          /\ SessionPayments(db, sid) \subseteq db.saved

\* C3: of the buyers who found a variant in stock, no more win than the variant had
\* units: with one unit, two concurrent purchases never both succeed.
C3_OneBuyerPerUnit ==
    \A c \in Colors :
        Cardinality({i \in ColorSells(db, c) : db.sells[i].stockSeen > 0})
            <= initial.colorStock[c]

\* C4: at most one Payment is stored per hosted-checkout session id.
C4_OnePaymentPerSession ==
    \A sid \in 1..Len(stripe) : Cardinality(SessionPayments(db, sid)) <= 1

\* C5: once the requests have ended, every stored installment Payment has its plan
\* update stored too.
C5_PaymentAndPlanTogether ==
    Quiet => InstallmentPayments(db) \subseteq db.saved

\* C6: a purchase that fails at any step of its transaction, in either channel, leaves
\* the store (payments, sales, plans, stock, availability) as it was.
C6_PurchaseAllOrNothing ==
    [][\A p \in Procs :
          (req[p].pc \in {"make_payment", "stripe_success"}
             /\ req'[p].pc = "idle" /\ last'.res = "aborted") => db' = db]_vars

\* C6's case: after a sale, a purchase has failed past its first write
C6_Witness ==
    /\ last.res = "aborted" /\ last.at = "midway"
    /\ last.op \in {"make_payment", "stripe_success"}
    /\ Len(db.sells) > 0

\* C7: no Sale is stored by a purchase that found its variant (or, without a variant,
\* the car) out of stock.
C7_NoSaleWithoutStock ==
    \A i \in 1..Len(db.sells) : db.sells[i].stockSeen > 0

\* C8: for every variant, initial stock = current stock + number of its Sale rows.
C8_StockConservation ==
    \A c \in Colors :
        initial.colorStock[c] = db.colorStock[c] + Cardinality(ColorSells(db, c))

\* C9: after a purchase, the car is unavailable exactly when the aggregate stock of its
\* colour variants is zero.
C9_AvailableIffStock ==
    Len(db.sells) > Len(initial.sells) => (db.available = FALSE <=> total_stock(db) = 0)

\* C10: no installment Payment is stored by a request that found the plan not active.
C10_NoPaymentOnInactivePlan ==
    \A i \in InstallmentPayments(db) : db.payments[i].seen = "active"

\* C11: a plan whose status is no longer active keeps that status in every step
\* (payments through either channel, admin status actions).
C11_StatusOnlyForward ==
    [][\A id \in 1..Len(db.plans) :
          db.plans[id].plan_status # "active"
             => db'.plans[id].plan_status = db.plans[id].plan_status]_vars

\* C12: every stored plan has no next due date exactly when its status is completed,
\* closed or defaulted.
C12_DueDateIffActive ==
    \A id \in 1..Len(db.plans) :
        db.plans[id].next_due_date = NoDate
           <=> db.plans[id].plan_status \in {"completed", "closed", "defaulted"}

\* the installment payments stored for plan id since the model started
PlanInstallments(d, id) ==
    {i \in InstallmentPayments(d) : i > Len(initial.payments) /\ d.payments[i].plan = id}

\* the due date after installments a then b, one after the other, from date d0
AdvancedTwice(d0, a, b) == AddMonths(AddMonths(d0, a), b)

\* two non-full payments on an active plan with different references (or none), both
\* stored with their plan update, and no request in progress
TwoInstallmentsDone(id, i, j) ==
    /\ Quiet
    /\ PlanInstallments(db, id) = {i, j} /\ i # j
    /\ {i, j} \subseteq db.saved
    /\ \A k \in {i, j} : db.payments[k].kind # "full" /\ db.payments[k].seen = "active"
    /\ db.payments[i].session = NoSession \/ db.payments[i].session # db.payments[j].session

\* C13: two non-full payments on an active plan, however their handlers interleave,
\* leave the plan as the two run one after the other do: completed exactly when the
\* payments reach loan_amount + total_interest, and otherwise with the due date advanced
\* by the installments of both.
C13_ConcurrentAsSequential ==
    \A id \in 1..Len(db.plans) : \A i, j \in PlanInstallments(db, id) :
        TwoInstallmentsDone(id, i, j) =>
            LET plan == db.plans[id]
                a == db.payments[i].amount \div plan.monthly_emi
                b == db.payments[j].amount \div plan.monthly_emi
                d0 == initial.plans[id].next_due_date
                reached == TotalInstallmentsPaid(db, plan)
                               >= plan.loan_amount + plan.total_interest
            IN  /\ plan.plan_status = "completed" <=> reached
                /\ ~reached => plan.next_due_date
                                  \in {AdvancedTwice(d0, a, b), AdvancedTwice(d0, b, a)}

\* ------------------------------------------- plan creation, both channels
\* <<FinanceSetting rate, car override>>: no override, an override, an override of 0.00
ConvergeRates == {<<1200, NoRate>>, <<1200, 600>>, <<1200, 0>>}

\* a store with nothing sold, for a car with or without an interest rate of its own
InitConverge ==
    /\ \E pr \in Prices, rc \in ConvergeRates :
          cfg = [price |-> pr, rate |-> rc[1], carRate |-> rc[2], workers |-> 1]
    /\ stripe = <<>>
    /\ session = <<>>
    /\ req = [p \in Procs |-> Idle]
    /\ last = NoOutcome
    /\ today \in StartDates
    /\ \E cs \in [Colors -> 0..MaxStock], s \in 0..MaxStock : db = EmptyStore(cs, s)
    /\ initial = db

\* purchases served one at a time, for every rate configuration
SpecConverge == InitConverge /\ [][NextPurchase]_vars

\* the plans created by the hosted-checkout callback / by the manual form
HostedPlans(d) == {id \in 1..Len(d.plans) : d.payments[d.plans[id].payment].session # NoSession}
ManualPlans(d) == {id \in 1..Len(d.plans) : d.payments[d.plans[id].payment].session = NoSession}

\* the terms of a plan that the schedule and the plan state are made of
PlanTerms(plan) ==
    [loan_amount |-> plan.loan_amount, interest_rate |-> plan.interest_rate,
     monthly_emi |-> plan.monthly_emi, total_interest |-> plan.total_interest,
     total_payable |-> plan.total_payable, plan_status |-> plan.plan_status,
     next_due_date |-> plan.next_due_date]

\* C14: a financed purchase is accepted by the hosted-checkout channel only with a down
\* payment the manual channel accepts (at least the minimum, below the price), and
\* the plans the two channels create for the same variant, down payment and term have
\* the same loan amount, interest rate, installment, interest, total, status and due date.
C14_ChannelsConverge ==
    /\ \A h \in HostedPlans(db) :
          /\ db.plans[h].down_payment >= MinimumDownPayment
          /\ db.plans[h].down_payment < cfg.price
    /\ \A h \in HostedPlans(db), m \in ManualPlans(db) :
          (/\ db.plans[h].color = db.plans[m].color
           /\ db.plans[h].down_payment = db.plans[m].down_payment
           /\ db.plans[h].tenure_months = db.plans[m].tenure_months)
             => PlanTerms(db.plans[h]) = PlanTerms(db.plans[m])

\* C15: a payment below the plan's installment that is not a full settlement is
\* refused: the refusing step leaves the store as it was, and no stored installment
\* Payment of a type other than 'full' is below the installment of its plan.
C15_InsufficientAmountRefused ==
    [][/\ (req' = req /\ last'.res = "insufficient") => db' = db
       /\ \A i \in InstallmentPayments(db') :
             db'.payments[i].kind # "full"
                => db'.payments[i].amount >= db'.plans[db'.payments[i].plan].monthly_emi]_vars

\* C15's case: a payment below the installment has just been refused on a plan that
\* is active, after an installment was paid
C15_Witness ==
    /\ Quiet
    /\ last = Outcome("make_emi_payment", "insufficient", "none")
    /\ \E id \in 1..Len(db.plans) :
          db.plans[id].plan_status = "active" /\ PlanInstallments(db, id) # {}

\* ------------------------------------------- a plan of 10,000.00 a month
\* manual installment forms with the amount written out, in cents
ScenarioForms ==
    { [etype |-> "single", pay |-> "amount", amount |-> 900000],
      [etype |-> "single", pay |-> "amount", amount |-> 1000000],
      [etype |-> "single", pay |-> "amount", amount |-> 1500000],
      [etype |-> "single", pay |-> "amount", amount |-> 2000000],
      [etype |-> "single", pay |-> "amount", amount |-> 2200000],
      [etype |-> "single", pay |-> "amount", amount |-> 2500000],
      [etype |-> "full",   pay |-> "amount", amount |-> 2500000] }

\* emi_plan_detail 798-803: remaining_balance = total_payable - (down_payment +
\* installment payments), not below 0
remaining_balance(d, plan) ==
    LET remaining == plan.total_payable - (plan.down_payment + TotalInstallmentsPaid(d, plan))
    IN  IF remaining < 0 THEN 0 ELSE remaining

\* the store after a financed purchase by make_payment (price 50,000.00, down payment
\* 10,000.00, 4 months at 0.00%: 10,000.00 a month) and a first installment payment of
\* 15,000.00 by make_emi_payment: the remaining balance is 25,000.00
InitScenario ==
    /\ cfg = [price |-> 5000000, rate |-> 0, carRate |-> NoRate, workers |-> 1]
    /\ stripe = <<>>
    /\ session = <<>>
    /\ req = [p \in Procs |-> Idle]
    /\ last = NoOutcome
    /\ today \in StartDates
    /\ LET d0 == EmptyStore([c \in Colors |-> 1], 1)
           r0 == MakePaymentRequest(d0, 1, [ptype |-> "emi", dp |-> 1000000, tenure |-> 4])
           d1 == Persisted(d0, "make_payment", MakePaymentSteps, MakePaymentAtomic,
                           0, r0, today)
           r1 == [pc |-> "make_emi_payment", plan |-> 1, snapPlan |-> d1.plans[1],
                  newPlan |-> d1.plans[1], amount |-> 1500000, etype |-> "single",
                  sid |-> NoSession, pid |-> 0]
           d2 == CreateEmiPayment(d1, r1, today)
           d3 == SavePlan(d2, 1, MakeEmiPaymentPlan(d2, r1.snapPlan, r1.amount, r1.etype),
                          Len(d2.payments), today)
       IN  /\ r0.pc = "make_payment"
           /\ db = d3
    /\ initial = db

NextScenario ==
    \/ \E p \in Procs, id \in PlanIds : MakeEmiPaymentBeginWith(p, id, ScenarioForms)
    \/ \E p \in Procs : MakeEmiPaymentTx(p)
    \/ \E p \in Procs : MakeEmiPaymentSave(p)

\* manual installment payments of written-out amounts on that plan, one at a time
SpecScenario == InitScenario /\ [][NextScenario]_vars

\* the store without its last Payment row
BeforeLastPayment(d) == [d EXCEPT !.payments = SubSeq(@, 1, Len(@) - 1)]

\* worker p stores the plan for a payment of 22,000.00, not a full settlement, on a
\* plan of 10,000.00 a month whose remaining balance was 25,000.00
Pays22000(p) ==
    /\ req[p].pc = "make_emi_save" /\ req'[p].pc = "idle" /\ last'.res = "ok"
    /\ req[p].etype # "full" /\ req[p].amount = 2200000
    /\ req[p].snapPlan.monthly_emi = 1000000
    /\ req[p].pid = Len(db.payments)
    /\ remaining_balance(BeforeLastPayment(db), req[p].snapPlan) = 2500000

\* C16: that payment applies 2 installments, advances the due date by 2 months and
\* leaves the plan active with a remaining balance of 5,000.00.
C16_Scenario22000 ==
    [][\A p \in Procs : Pays22000(p) =>
          LET plan == db'.plans[req[p].plan]
          IN  /\ req[p].amount \div plan.monthly_emi = 2
              /\ plan.next_due_date = AddMonths(req[p].snapPlan.next_due_date, 2)
              /\ plan.plan_status = "active"
              /\ remaining_balance(db', plan) = 500000]_vars

\* |a - b| <= one cent
WithinOneCent(a, b) == a - b <= 1 /\ b - a <= 1

\* C17: every stored plan has monthly_emi * tenure_months equal to its total_payable
\* within one cent.
C17_InstallmentsReconcile ==
    \A id \in 1..Len(db.plans) :
        WithinOneCent(db.plans[id].monthly_emi * db.plans[id].tenure_months,
                      db.plans[id].total_payable)

\* ------------------------------------------------ the two helpers on their own
\* _compute_emi and _add_months are module-level functions of views.py: a call is a
\* worker holding the arguments, and the call step leaves the returned value in `last`.
MaxPrincipal == 1000    \* largest principal of a call, in cents
MaxMonths == 14         \* largest number of months added or subtracted by a call

ScheduleRates == {0, 1200, 2400}    \* annual rates whose monthly rate is an exact decimal
ScheduleTenures == {0, 1, 2, 3}
ScheduleYears == {2023, 2024, 2099}

ScheduleCalls ==
    {[pc |-> "call", fn |-> "_compute_emi", principal |-> P, rate |-> R,
      tenure_months |-> N] : P \in 0..MaxPrincipal, R \in ScheduleRates, N \in ScheduleTenures}

MonthCalls ==
    {c \in {[pc |-> "call", fn |-> "_add_months", sourcedate |-> <<y, m, d>>, months |-> n] :
               y \in ScheduleYears, m \in 1..12, d \in 1..31, n \in (0 - MaxMonths)..MaxMonths} :
        c.sourcedate[3] <= DaysInMonth(c.sourcedate[1], c.sourcedate[2])}

\* one worker about to make one of the calls; the store plays no part
InitCall(calls) ==
    /\ \E pr \in Prices, rc \in RateConfigs :
          cfg = [price |-> pr, rate |-> rc[1], carRate |-> rc[2], workers |-> 1]
    /\ db = EmptyStore([c \in Colors |-> 0], 0)
    /\ initial = db
    /\ stripe = <<>>
    /\ session = <<>>
    /\ \E call \in calls : req = [p \in Procs |-> IF p = 1 THEN call ELSE Idle]
    /\ last = NoOutcome
    /\ today \in StartDates

\* views.py 40-65
ComputeEmiCall(p) ==
    /\ req[p].pc = "call"
    /\ req[p].fn = "_compute_emi"
    /\ Finish(p, "_compute_emi",
              ComputeEmi(req[p].principal, req[p].rate, req[p].tenure_months),
              <<req[p].principal, req[p].rate, req[p].tenure_months>>)
    /\ UNCHANGED <<cfg, initial, db, stripe, session, today>>

\* views.py 68-77
AddMonthsCall(p) ==
    /\ req[p].pc = "call"
    /\ req[p].fn = "_add_months"
    /\ Finish(p, "_add_months", AddMonths(req[p].sourcedate, req[p].months),
              <<req[p].sourcedate, req[p].months>>)
    /\ UNCHANGED <<cfg, initial, db, stripe, session, today>>

NextSchedule == \E p \in Procs : ComputeEmiCall(p)
SpecSchedule == InitCall(ScheduleCalls) /\ [][NextSchedule]_vars

NextMonths == \E p \in Procs : AddMonthsCall(p)
SpecMonths == InitCall(MonthCalls) /\ [][NextMonths]_vars

\* C18: for every principal P > 0 in cents, rate R >= 0 and term N >= 1, _compute_emi
\* returns an installment, a total payable and a total interest such that
\* installment x N is within one cent of the total payable and the total interest is
\* exactly the total payable minus P.
C18_ScheduleReconciles ==
    (last.op = "_compute_emi" /\ last.at[1] > 0 /\ last.at[2] >= 0 /\ last.at[3] >= 1) =>
        /\ last.res.ok
        /\ WithinOneCent(last.res.emi * last.at[3], last.res.total_amount)
        /\ last.res.total_interest = last.res.total_amount - last.at[1]

\* an amortized schedule whose installment was rounded: 6.00 at 12.00% over 3 months
C18_Witness ==
    /\ last.op = "_compute_emi"
    /\ last.at = <<600, 1200, 3>>
    /\ last.res = [ok |-> TRUE, emi |-> 204, total_amount |-> 612, total_interest |-> 12]

\* C19: at rate 0, for every principal P > 0 and term N >= 1, the installment of
\* _compute_emi is P / N rounded half-up to the cent and the total interest is 0.
C19_ZeroRateNoInterest ==
    (last.op = "_compute_emi" /\ last.at[1] > 0 /\ last.at[2] = 0 /\ last.at[3] >= 1) =>
        /\ last.res.ok
        /\ last.res.emi = QuantizeHalfUp(last.at[1], last.at[3])
        /\ last.res.total_interest = 0

\* C20: for every date d and integer n, _add_months returns the date n calendar
\* months later (across year ends in both directions), with the day of d when the
\* target month has that day and the last day of the target month otherwise, never a
\* day of the month after; _add_months(2024-01-31, 1) = 2024-02-29 and
\* _add_months(2023-01-31, 1) = 2023-02-28.
C20_AddMonthsClamps ==
    last.op = "_add_months" =>
        LET d      == last.at[1]
            n      == last.at[2]
            r      == last.res
            months == d[1] * 12 + (d[2] - 1) + n     \* months since year 0 of the target
        IN  /\ r[1] = months \div 12
            /\ r[2] = (months % 12) + 1
            /\ r[3] = (IF d[3] <= DaysInMonth(r[1], r[2]) THEN d[3]
                       ELSE DaysInMonth(r[1], r[2]))
            /\ (d = <<2024, 1, 31>> /\ n = 1) => r = <<2024, 2, 29>>
            /\ (d = <<2023, 1, 31>> /\ n = 1) => r = <<2023, 2, 28>>

\* a clamped result in a leap year
C20_Witness ==
    /\ last.op = "_add_months"
    /\ last.at = <<<<2024, 1, 31>>, 1>>
    /\ last.res = <<2024, 2, 29>>

\* C21: every plan that a step of a financed purchase adds to the store, in either
\* channel, has status active and its next due date one calendar month after the date
\* of its down payment; no plan is created in a terminal status.
C21_PlanCreatedActive ==
    [][\A id \in (Len(db.plans) + 1)..Len(db'.plans) :
          /\ db'.plans[id].plan_status = "active"
          /\ db'.plans[id].next_due_date # NoDate
          /\ \E m \in 1..12 :
                /\ db'.plans[id].next_due_date[2] = m
                /\ LET pd == db'.payments[db'.plans[id].payment].date
                   IN  /\ 12 * db'.plans[id].next_due_date[1] + m = 12 * pd[1] + pd[2] + 1
                       /\ db'.plans[id].next_due_date[3] =
                             (IF pd[3] <= DaysInMonth(db'.plans[id].next_due_date[1], m)
                              THEN pd[3] ELSE DaysInMonth(db'.plans[id].next_due_date[1], m))]_vars

\* a plan of each channel is in the store
C21_Witness ==
    /\ Quiet
    /\ HostedPlans(db) # {}
    /\ ManualPlans(db) # {}

\* ---------------------------------------- installments that leave a remainder
\* amounts between one and three installments of the plans of PlanForms (3.05 and 2.04)
RemainderForms ==
    EmiForms \cup { [etype |-> "single", pay |-> "amount", amount |-> 400],
                    [etype |-> "multiple", pay |-> "amount", amount |-> 500] }

NextEmiRemainder ==
    \/ \E p \in Procs, id \in PlanIds : MakeEmiPaymentBeginWith(p, id, RemainderForms)
    \/ \E p \in Procs : MakeEmiPaymentTx(p)
    \/ \E p \in Procs : MakeEmiPaymentSave(p)
    \/ \E p \in Procs, id \in PlanIds : CreateEmiStripeCheckout(p, id)
    \/ \E p \in Procs, sid \in 1..MaxSessions : StripeEmiSuccessBegin(p, sid)
    \/ \E p \in Procs : StripeEmiSuccessCommit(p)

\* installment payments of any amount, served one at a time
SpecEmiRemainder == InitPlan(1) /\ [][NextEmiRemainder]_vars

\* worker p ends a payment that is not a full settlement with success in this step
NonFullApplied(p) ==
    /\ req[p].pc \in {"make_emi_save", "stripe_emi_success"}
    /\ req[p].etype # "full"
    /\ req'[p].pc = "idle"
    /\ last'.res = "ok"

\* C22: a payment that is not a full settlement, in either channel, and leaves the plan
\* active moves the next due date by as many months as whole installments fit in the
\* amount, from the due date the plan had (from one month after its start when it had
\* none); what remains of the amount moves nothing.
C22_DueDateByWholeInstallments ==
    [][\A p \in Procs :
          (NonFullApplied(p) /\ db.plans[req[p].plan].plan_status = "active"
              /\ db'.plans[req[p].plan].plan_status = "active") =>
             LET old == db.plans[req[p].plan]
                 from == IF old.next_due_date # NoDate THEN old.next_due_date
                         ELSE AddMonths(old.start_date, 1)
             IN  \E k \in 0..old.tenure_months :
                    /\ k * old.monthly_emi <= req[p].amount
                    /\ req[p].amount < (k + 1) * old.monthly_emi
                    /\ db'.plans[req[p].plan].next_due_date = AddMonths(from, k)]_vars

\* a manual payment with a remainder and a hosted payment are stored with their plan
\* updates, and the plan is active
C22_Witness ==
    /\ Quiet
    /\ \E i, j \in InstallmentPayments(db) :
          /\ {i, j} \subseteq db.saved
          /\ db.payments[i].session = NoSession
          /\ db.payments[i].amount % db.plans[db.payments[i].plan].monthly_emi # 0
          /\ db.payments[j].session # NoSession
          /\ db.payments[j].plan = db.payments[i].plan
          /\ db.plans[db.payments[i].plan].plan_status = "active"

\* C23: after a payment that is not a full settlement, the plan is completed and has
\* no next due date exactly when the completed payments of the plan, the down payment
\* and every installment dated on or after the plan's start, add up to at least
\* loan_amount + total_interest; otherwise the plan is still active.
C23_CompletedIffTotalReached ==
    [][\A p \in Procs :
          (NonFullApplied(p) /\ db.plans[req[p].plan].plan_status = "active") =>
             LET plan  == db'.plans[req[p].plan]
                 total == SumAmounts(db'.payments, PlanPaymentIds(db', plan))
             IN  IF total >= plan.loan_amount + plan.total_interest
                 THEN plan.plan_status = "completed" /\ plan.next_due_date = NoDate
                 ELSE plan.plan_status = "active"]_vars

\* worker p ends a payment, of either channel and of any type, with success in this step
PaymentApplied(p) ==
    /\ req[p].pc \in {"make_emi_save", "stripe_emi_success"}
    /\ req'[p].pc = "idle"
    /\ last'.res = "ok"

\* C24: whenever a payment, full settlement or not, in either channel, moves a plan to
\* completed, the completed payments of the plan with its down payment add up to at
\* least total_payable: nothing is owed on a plan that a payment completes.
C24_CompletedOnlyWhenPaid ==
    [][\A p \in Procs :
          (PaymentApplied(p) /\ db.plans[req[p].plan].plan_status # "completed"
              /\ db'.plans[req[p].plan].plan_status = "completed") =>
             SumAmounts(db'.payments, PlanPaymentIds(db', db'.plans[req[p].plan]))
                 >= db'.plans[req[p].plan].total_payable]_vars

\* emi_count = int(amount / monthly_emi), summed over the payments S of a plan whose
\* installment is emi (make_emi_payment 877, stripe_emi_success 1893)
RECURSIVE SumEmiCount(_, _, _)
SumEmiCount(f, S, emi) ==
    IF S = {} THEN 0
    ELSE LET i == CHOOSE j \in S : TRUE
         IN  (f[i].amount \div emi) + SumEmiCount(f, S \ {i}, emi)

\* the payments applied to plan id that were not full settlements
AppliedInstallments(d, id) ==
    {i \in PlanInstallments(d, id) \cap d.saved : d.payments[i].kind # "full"}

\* C25: with one plan for the customer and the car and payments applied one after the
\* other, whenever the plan is active the installments counted by its payments are
\* fewer than tenure_months, and the next due date is not after the first due date
\* plus tenure_months - 1 months.
C25_ActiveBelowTenure ==
    \A id \in 1..Len(db.plans) :
        db.plans[id].plan_status = "active" =>
            /\ SumEmiCount(db.payments, AppliedInstallments(db, id), db.plans[id].monthly_emi)
                   < db.plans[id].tenure_months
            /\ DateGte(AddMonths(initial.plans[id].next_due_date,
                                 db.plans[id].tenure_months - 1),
                       db.plans[id].next_due_date)

\* two payments have been applied and the plan is active, one installment short of
\* its term
C25_Witness ==
    /\ Quiet
    /\ \E id \in 1..Len(db.plans) :
          /\ db.plans[id].plan_status = "active"
          /\ Cardinality(AppliedInstallments(db, id)) = 2
          /\ SumEmiCount(db.payments, AppliedInstallments(db, id), db.plans[id].monthly_emi)
                 = db.plans[id].tenure_months - 1
          /\ db.plans[id].next_due_date =
                 AddMonths(initial.plans[id].next_due_date, db.plans[id].tenure_months - 1)

\* ------------------------------------------------ plans started at a month's end
MonthEndDates == {<<2022, 12, 29>>, <<2023, 12, 30>>, <<2023, 12, 31>>, <<2024, 1, 31>>}

\* a store in which one financed purchase has been made on one of those days
InitMonthEnd ==
    /\ \E pr \in Prices, rc \in RateConfigs :
          cfg = [price |-> pr, rate |-> rc[1], carRate |-> rc[2], workers |-> 1]
    /\ stripe = <<>>
    /\ session = <<>>
    /\ req = [p \in Procs |-> Idle]
    /\ last = NoOutcome
    /\ today \in MonthEndDates
    /\ \E form \in PlanForms :
        LET d0 == EmptyStore([c \in Colors |-> 1], 1)
            r  == MakePaymentRequest(d0, 1, form)
        IN  /\ r.pc = "make_payment"
            /\ db = Persisted(d0, "make_payment", MakePaymentSteps, MakePaymentAtomic,
                              0, r, today)
    /\ initial = db

\* installment payments on such a plan, served one at a time
SpecMonthEnd == InitMonthEnd /\ [][NextEmiPay]_vars

\* C26: k payments of one installment each leave an active plan with the next due date
\* that one payment of k installments leaves it with, the first due date plus k months,
\* for every day of the month the plan starts on and every k that does not complete it.
C26_SinglesAsOnePayment ==
    \A id \in 1..Len(db.plans) :
        (/\ Quiet
         /\ db.plans[id].plan_status = "active"
         /\ PlanInstallments(db, id) = AppliedInstallments(db, id)
         /\ \A i \in PlanInstallments(db, id) :
               db.payments[i].amount = db.plans[id].monthly_emi)
        => db.plans[id].next_due_date =
              AddMonths(initial.plans[id].next_due_date,
                        Cardinality(PlanInstallments(db, id)))

\* C27: a Payment stored for one purchase or plan leaves every other plan's paid total
\* as it was: for a plan that a step stores no payment for (the customer's other plan
\* for the car, or a plan next to a new purchase of the car), the remaining balance, the
\* status and the installments counted towards its completion are unchanged.
C27_PaymentsKeptApart ==
    [][\A id \in 1..Len(db.plans) :
          (/\ Len(db'.payments) > Len(db.payments)
           /\ \A i \in (Len(db.payments) + 1)..Len(db'.payments) : db'.payments[i].plan # id)
          => /\ remaining_balance(db', db'.plans[id]) = remaining_balance(db, db.plans[id])
             /\ RemainingBalance(db', db'.plans[id]) = RemainingBalance(db, db.plans[id])
             /\ TotalInstallmentsPaid(db', db'.plans[id]) = TotalInstallmentsPaid(db, db.plans[id])
             /\ db'.plans[id].plan_status = db.plans[id].plan_status]_vars

\* -------------------------------- hosted purchases with a second checkout started
\* the customer may start one more checkout while a checkout session is open
NextCheckouts ==
    \/ \E p \in Procs : CreateStripeCheckoutUpTo(p, MaxSessions + 1)
    \/ \E p \in Procs, sid \in 1..(MaxSessions + 1) : StripeSuccessBegin(p, sid)
    \/ \E p \in Procs : StripeSuccessCommit(p)

SpecCheckouts == InitStore(1) /\ [][NextCheckouts]_vars

\* the plan created with Payment i, if any
PlansOfPayment(d, i) == {id \in 1..Len(d.plans) : d.plans[id].payment = i}

\* C28: every purchase stored by the hosted-checkout callback has the variant, the
\* payment type and the amount of the checkout session that was paid, however the
\* customer's checkouts and callbacks follow each other.
C28_RecordedAsPaid ==
    \A i \in 1..Len(db.payments) :
        (db.payments[i].kind = "purchase" /\ db.payments[i].session # NoSession) =>
            LET paid == stripe[db.payments[i].session]
            IN  /\ db.payments[i].color = paid.color
                /\ db.payments[i].amount = paid.amount
                /\ PlansOfPayment(db, i) # {} => paid.ptype = "emi"
                /\ (paid.ptype = "emi" /\ paid.amount < cfg.price /\ Quiet)
                      => PlansOfPayment(db, i) # {}

\* C29: the hosted-checkout purchase callback, run again after it has stored the Payment
\* of its session id, with requests served one after the other, stores nothing: no
\* Payment, Sale or plan is added, no stock or availability changes.
C29_ReplayStoresNothing ==
    [][\A p \in Procs :
          (/\ req[p].pc = "stripe_success"
           /\ req'[p].pc = "idle"
           /\ SessionPayments(db, req[p].sid) # {}) => db' = db]_vars

\* a replay has been answered with the existing Payment, the only one of its session,
\* next to the one Sale of the purchase
C29_Witness ==
    /\ last = Outcome("stripe_success", "duplicate", "none")
    /\ \E sid \in 1..Len(stripe) :
          /\ Cardinality(SessionPayments(db, sid)) = 1
          /\ Len(db.sells) = 1
          /\ Len(db.payments) = 1

\* C30: create_emi_stripe_checkout on an active plan with payment_type 'multiple' and a
\* count of k >= 1 installments ends in a handled outcome, a checkout session for k
\* times the installment or a reported error, never in an error nothing handles.
C30_MultipleCheckoutHandled ==
    /\ last.op = "create_emi_stripe_checkout"
          => last.res \in {"ok", "stripe_error", "not_active"}
    /\ \A sid \in 1..Len(stripe) :
          (stripe[sid].kind = "emi" /\ stripe[sid].ptype = "multiple") =>
             \E k \in 1..db.plans[stripe[sid].plan].tenure_months :
                 stripe[sid].amount = k * db.plans[stripe[sid].plan].monthly_emi

====
